---- MODULE Spec2Model ----
(***************************************************************************)
(* The alert ledger of src/utils/github.js: appendAlertToCSV and           *)
(* fetchAlertsFromCSV over one remote document (Alerts.csv) reached        *)
(* through the GitHub contents API.                                        *)
(*                                                                         *)
(* A JavaScript string is a sequence of one-character strings.  The value  *)
(* undefined/null of an optional field is UNDEF.                           *)
(***************************************************************************)
EXTENDS Integers, Sequences, FiniteSets, TLC

Q == "\""
COMMA == ","
NL == "\n"
SP == " "

UNDEF == <<"undefined">>

\* ------------------------------------------------------------------ strings

\* JavaScript whitespace (\s, and what trim() removes), within the alphabet.
IsSpace(ch) == ch \in {SP, NL}

Last(s) == s[Len(s)]

Front(s) == SubSeq(s, 1, Len(s) - 1)

\* A slip for trim(): the text is left as it is.
TrimNone(s) == s

\* String.prototype.trim
Trim(s) ==
    IF \A k \in 1..Len(s) : IsSpace(s[k]) THEN <<>>
    ELSE LET first == CHOOSE k \in 1..Len(s) :
                          ~IsSpace(s[k]) /\ \A j \in 1..(k - 1) : IsSpace(s[j])
             last  == CHOOSE k \in 1..Len(s) :
                          ~IsSpace(s[k]) /\ \A j \in (k + 1)..Len(s) : IsSpace(s[j])
         IN  SubSeq(s, first, last)

\* s.split(sep) for a one-character separator: the pieces between the
\* separators, so "" splits into one empty string.
Split(s, sep) ==
    LET at == {k \in 1..Len(s) : s[k] = sep}
        n  == Cardinality(at)
        \* the position of the i-th separator; 0 and Len(s) + 1 bracket the string
        pos(i) == IF i = 0 THEN 0
                  ELSE IF i = n + 1 THEN Len(s) + 1
                  ELSE CHOOSE p \in at : Cardinality({q \in at : q < p}) = i - 1
    IN  [i \in 1..(n + 1) |-> SubSeq(s, pos(i - 1) + 1, pos(i) - 1)]

\* parts.join(sep)
RECURSIVE Join(_, _)
Join(parts, sep) ==
    IF parts = <<>> THEN <<>>
    ELSE IF Len(parts) = 1 THEN parts[1]
    ELSE parts[1] \o <<sep>> \o Join(Tail(parts), sep)

\* s.replace(/"/g, '""')
EscapeQuotes(s) ==
    LET \* where the i-th character of s starts in the result
        at(i) == i + Cardinality({j \in 1..(i - 1) : s[j] = Q})
        quotes == Cardinality({j \in 1..Len(s) : s[j] = Q})
    IN  IF \A j \in 1..Len(s) : s[j] # Q THEN s
        ELSE [k \in 1..(Len(s) + quotes) |->
                 s[CHOOSE i \in 1..Len(s) :
                       at(i) <= k /\ k <= at(i) + (IF s[i] = Q THEN 1 ELSE 0)]]

\* s.replace(/^"|"$/g, ''): one quote at the start and one at the end, when there.
StripQuotes(s) ==
    LET a == IF s # <<>> /\ Head(s) = Q THEN Tail(s) ELSE s
    IN  IF a # <<>> /\ Last(a) = Q THEN Front(a) ELSE a

\* s.replace(/""/g, '"'): pairs are matched left to right, without overlap.
RECURSIVE UnescapeQuotes(_)
UnescapeQuotes(s) ==
    IF s = <<>> THEN <<>>
    ELSE IF Len(s) >= 2 /\ s[1] = Q /\ s[2] = Q
         THEN <<Q>> \o UnescapeQuotes(SubSeq(s, 3, Len(s)))
    ELSE <<Head(s)>> \o UnescapeQuotes(Tail(s))

\* s.replace(/\s+/g, '')
RECURSIVE RemoveSpaces(_)
RemoveSpaces(s) ==
    IF s = <<>> THEN <<>>
    ELSE IF IsSpace(Head(s)) THEN RemoveSpaces(Tail(s))
    ELSE <<Head(s)>> \o RemoveSpaces(Tail(s))

UpperLetters ==
    <<"A", "B", "C", "D", "E", "F", "G", "H", "I", "J", "K", "L", "M",
      "N", "O", "P", "Q", "R", "S", "T", "U", "V", "W", "X", "Y", "Z">>

LowerLetters ==
    <<"a", "b", "c", "d", "e", "f", "g", "h", "i", "j", "k", "l", "m",
      "n", "o", "p", "q", "r", "s", "t", "u", "v", "w", "x", "y", "z">>

LowerChar(ch) ==
    IF \E k \in 1..26 : UpperLetters[k] = ch
    THEN LowerLetters[CHOOSE k \in 1..26 : UpperLetters[k] = ch]
    ELSE ch

\* String.prototype.toLowerCase
ToLowerCase(s) == [k \in 1..Len(s) |-> LowerChar(s[k])]

\* JavaScript truthiness of a string-or-undefined value.
Truthy(v) == v # UNDEF /\ v # <<>>

\* ------------------------------------------------------------------ encoding

\* The header line written by appendAlertToCSV, newline included.
CsvHeader ==
    <<"L", "o", "c", "a", "t", "i", "o", "n", ",", "S", "e", "v", "e", "r", "i", "t", "y", ",",
      "D", "e", "s", "c", "r", "i", "p", "t", "i", "o", "n", ",",
      "C", "o", "n", "t", "a", "c", "t", " ", "I", "n", "f", "o", ",",
      "T", "i", "m", "e", "s", "t", "a", "m", "p", ",", "S", "t", "a", "t", "u", "s", ",",
      "V", "e", "r", "i", "f", "i", "e", "d", NL>>

TextPending == <<"p", "e", "n", "d", "i", "n", "g">>

TextTrue == <<"t", "r", "u", "e">>

TextFalse == <<"f", "a", "l", "s", "e">>

\* `"${v}"`
InQuotes(v) == <<Q>> \o v \o <<Q>>

\* `${alertData.verified || false}`
VerifiedText(verified) == IF verified THEN TextTrue ELSE TextFalse

\* The seven fields of newRow, before the join.
RowFields(alertData) ==
    << InQuotes(alertData.location),
       InQuotes(alertData.severity),
       InQuotes(EscapeQuotes(alertData.description)),
       InQuotes(IF Truthy(alertData.contactInfo) THEN alertData.contactInfo ELSE <<>>),
       InQuotes(alertData.timestamp),
       InQuotes(IF Truthy(alertData.status) THEN alertData.status ELSE TextPending),
       InQuotes(VerifiedText(alertData.verified)) >>

NewRow(alertData) == Join(RowFields(alertData), COMMA) \o <<NL>>

\* ------------------------------------------------------------------ decoding

KeyVerified == <<"v", "e", "r", "i", "f", "i", "e", "d">>

KeyTimestamp == <<"t", "i", "m", "e", "s", "t", "a", "m", "p">>

KeyStatus == <<"s", "t", "a", "t", "u", "s">>

KeyContactinfo == <<"c", "o", "n", "t", "a", "c", "t", "i", "n", "f", "o">>

KeyLocation == <<"l", "o", "c", "a", "t", "i", "o", "n">>

KeySeverity == <<"s", "e", "v", "e", "r", "i", "t", "y">>

KeyDescription == <<"d", "e", "s", "c", "r", "i", "p", "t", "i", "o", "n">>

KeyId == <<"i", "d">>

KeyReportedBy == <<"r", "e", "p", "o", "r", "t", "e", "d", "B", "y">>

HeaderVerified == <<"V", "e", "r", "i", "f", "i", "e", "d">>

HeaderTimestamp == <<"T", "i", "m", "e", "s", "t", "a", "m", "p">>

TextCommunityMember ==
    <<"C", "o", "m", "m", "u", "n", "i", "t", "y", " ", "M", "e", "m", "b", "e", "r">>

TextAnonymous == <<"A", "n", "o", "n", "y", "m", "o", "u", "s">>

\* An alert object is the sequence of its <<key, value>> properties.
HasKey(alert, key) == \E k \in 1..Len(alert) : alert[k][1] = key

\* alert[key], undefined when the object has no such property.
GetKey(alert, key) ==
    IF HasKey(alert, key)
    THEN alert[CHOOSE k \in 1..Len(alert) : alert[k][1] = key][2]
    ELSE UNDEF

\* alert[key] = value
SetKey(alert, key, value) ==
    IF HasKey(alert, key)
    THEN [k \in 1..Len(alert) |->
            IF alert[k][1] = key THEN <<key, value>> ELSE alert[k]]
    ELSE Append(alert, <<key, value>>)

\* One pass of the body of the character loop, at index j of the line. The
\* body's own j++ (the second quote of a doubled quote) is the flag skip: the
\* pass at the next index does nothing.
ScanStep(st, line, j) ==
    IF st.skip THEN [st EXCEPT !.skip = FALSE]
    ELSE IF line[j] = Q
         THEN IF st.inQuotes /\ j + 1 <= Len(line) /\ line[j + 1] = Q
              THEN [st EXCEPT !.current = Append(@, Q), !.skip = TRUE]
              ELSE [st EXCEPT !.inQuotes = ~@]
    ELSE IF line[j] = COMMA /\ ~st.inQuotes
         THEN [st EXCEPT !.values = Append(@, Trim(st.current)), !.current = <<>>]
    ELSE [st EXCEPT !.current = Append(@, line[j])]

\* The passes at indices lo..hi, in order: those of the first half, then
\* those of the second half from the state the first half ends in.
RECURSIVE ScanRange(_, _, _, _)
ScanRange(st, line, lo, hi) ==
    IF lo > hi THEN st
    ELSE IF lo = hi THEN ScanStep(st, line, lo)
    ELSE LET mid == (lo + hi) \div 2
         IN  CHOOSE end \in {ScanRange(half, line, mid + 1, hi) :
                                half \in {ScanRange(st, line, lo, mid)}} : TRUE

\* The values pushed for one line, the last one after the loop.
ParseLine(line) ==
    LET start == [current |-> <<>>, inQuotes |-> FALSE, values |-> <<>>, skip |-> FALSE]
        end   == ScanRange(start, line, 1, Len(line))
    IN  Append(end.values, Trim(end.current))

\* lines[0].split(',').map(h => h.trim().replace(/^"|"$/g, ''))
ParseHeaders(line) ==
    LET parts == Split(line, COMMA)
    IN  [k \in 1..Len(parts) |-> StripQuotes(Trim(parts[k]))]

\* headers.forEach((header, index) => ...), from property index on.
RECURSIVE FillAlert(_, _, _, _)
FillAlert(headers, values, index, alert) ==
    IF index > Len(headers) THEN alert
    ELSE LET header == headers[index]
             value == UnescapeQuotes(StripQuotes(values[index]))
         IN  IF header = HeaderVerified
             THEN FillAlert(headers, values, index + 1,
                            SetKey(alert, ToLowerCase(header), value = TextTrue))
             ELSE IF header = HeaderTimestamp
             THEN FillAlert(headers, values, index + 1,
                            SetKey(alert, KeyTimestamp, value))
             ELSE FillAlert(headers, values, index + 1,
                            SetKey(alert, RemoveSpaces(ToLowerCase(header)), value))

\* The alert pushed for data line i (0-based, as in the source).
MakeAlert(headers, values, i) ==
    LET a1 == FillAlert(headers, values, 1, <<>>)
        a2 == SetKey(a1, KeyId, i)
        a3 == SetKey(a2, KeyReportedBy,
                     IF HasKey(a2, KeyContactinfo) /\ Truthy(GetKey(a2, KeyContactinfo))
                     THEN TextCommunityMember ELSE TextAnonymous)
    IN  SetKey(a3, KeyStatus,
               IF HasKey(a3, KeyStatus) /\ Truthy(GetKey(a3, KeyStatus))
               THEN GetKey(a3, KeyStatus) ELSE TextPending)

\* for (let i = 1; i < lines.length; i++): line i of the source is lines[i + 1] here.
RECURSIVE ParseRows(_, _, _, _)
ParseRows(lines, headers, i, alerts) ==
    IF i >= Len(lines) THEN alerts
    ELSE LET values == ParseLine(lines[i + 1])
         IN  IF Len(values) = Len(headers)
             THEN ParseRows(lines, headers, i + 1,
                            Append(alerts, MakeAlert(headers, values, i)))
             ELSE ParseRows(lines, headers, i + 1, alerts)

\* The skipped-line warnings of a parse. The test of the field count (line
\* 250) has no else branch: a line that fails it is passed over, and nothing
\* is logged or returned for it.
SkipWarnings(csvText) == <<>>

\* What fetchAlertsFromCSV returns for the response text csvText.
ParseCSV(csvText) ==
    IF Trim(csvText) = <<>> THEN <<>>
    ELSE LET lines == Split(Trim(csvText), NL)
         IN  IF Len(lines) < 2 THEN <<>>
             ELSE ParseRows(lines, ParseHeaders(lines[1]), 1, <<>>)

\* ------------------------------------------------------------------ the ledger

VARIABLES
    tokenSet,    \* import.meta.env.VITE_GITHUB_TOKEN is set
    hostExists,  \* Alerts.csv exists in the repository
    hostText,    \* its text
    hostVer,     \* its blob sha, as the count of accepted writes
    fileExists,  \* the filePath of the saveFileToGitHub calls exists
    fileVer,     \* its blob sha, as the count of accepted writes
    fileText,    \* its content
    kind,        \* what each call is: "append" (appendAlertToCSV) or "save" (saveFileToGitHub)
    pc,          \* where each call stands
    csvContent,  \* each call's csvContent
    sha,         \* each call's sha
    err,         \* what each call threw
    attempts,    \* GET requests each call has sent
    puts,        \* PUT requests each call has sent
    getResp,     \* how each call's GET ended
    silent,      \* the host will never answer the call's request in flight
    stored,      \* the host has stored the PUT of the call
    error,       \* the Error object each call threw
    bodies,      \* the bodies the host's error responses may carry
    form,        \* Alerts.jsx: the state of the alert form that makes each call
    upload,      \* ImageUpload.jsx: the state of the component
    chat,        \* FloatingChatbot and Chatbot.jsx: their state
    lastList,    \* what the last fetchAlertsFromCSV call returned
    listResp,    \* the response it got
    listSeen,    \* the append calls that had returned when it was made
    listThrew,   \* it ended by throwing
    records,     \* codec runs: the records encoded so far
    document,    \* codec runs: the header followed by their rows
    decoded,     \* codec runs: the alerts parsed from document
    warnings,    \* codec runs: the skipped-line warnings the parse reported
    phase        \* codec runs: "off", "build" or "parsed"

ledgerVars ==
    <<tokenSet, hostExists, hostText, hostVer, pc, csvContent, sha, err, attempts,
      lastList, listResp, listSeen>>

\* The stored file of the saveFileToGitHub calls, and what tells the calls apart.
fileVars == <<fileExists, fileVer, fileText, kind>>

\* The requests of the calls, as the host and the network see them.
requestVars == <<puts, getResp, silent>>

\* What became of each call, beyond pc and err.
outcomeVars == <<stored, error, bodies>>

codecVars == <<records, document, decoded, warnings, phase>>

\* The state of the components that call the functions of github.js.
uiVars == <<form, upload, chat>>

vars ==
    <<tokenSet, hostExists, hostText, hostVer, pc, csvContent, sha, err, attempts,
      lastList, listResp, listSeen, listThrew, fileExists, fileVer, fileText, kind,
      puts, getResp, silent, stored, error, bodies,
      records, document, decoded, warnings, phase, form, upload, chat>>

\* Concurrent calls.
NumCalls == 2

Calls == 1..NumCalls

\* let sha = null
NoSha == 0

Digits == <<"0", "1", "2", "3", "4", "5", "6", "7", "8", "9">>

\* alertData.timestamp of the c-th call.
Stamp(c) ==
    <<"2", "0", "2", "4", "-", "0", "1", "-", "1", "5", "T",
      "1", "0", ":", "0", "0", ":", "0", Digits[c], "Z">>

\* The alertData of the c-th call: the record of the specification's scenario,
\* the timestamps one second apart.
AlertData(c) ==
    [ location    |-> <<"N", "o", "r", "t", "h", "e", "r", "n", " ",
                        "V", "a", "l", "l", "e", "y", ",", " ", "C", "A">>,
      severity    |-> <<"h", "i", "g", "h">>,
      description |-> <<"S", "m", "o", "k", "e", " ", "v", "i", "s", "i", "b", "l", "e", " ",
                        "n", "e", "a", "r", " ", "t", "o", "w", "n", ",", " ",
                        "e", "v", "a", "c", "u", "a", "t", "i", "o", "n", " ",
                        "a", "d", "v", "i", "s", "e", "d">>,
      contactInfo |-> <<>>,
      timestamp   |-> Stamp(c),
      status      |-> TextPending,
      verified    |-> FALSE ]

\* btoa(unescape(encodeURIComponent(text))): the base64 form of the UTF-8
\* bytes of the text. The platform's encoder is not expanded: the encoded
\* form is a value of its own that only DecodeContent opens.
EncodeContent(text) == [base64 |-> text]

\* decodeURIComponent(escape(atob(content.replace(/\s/g, '')))): the platform's
\* inverse of EncodeContent, the line breaks of the host's base64 removed.
DecodeContent(content) == content.base64

\* A slip for csvContent += newRow: csvContent = newRow.
AppendRowAssigned(content, newRow) == newRow

\* csvContent += newRow
AppendRow(content, newRow) == content \o newRow

\* A slip for the test of the response: if (response.ok) throw ...
AfterPutInverted(ok, status) ==
    IF ~ok THEN [pc |-> "returned", err |-> "none"]
    ELSE [pc |-> "thrown", err |-> "hosterror"]

\* What a call makes of the response to its PUT:
\* if (!response.ok) throw new Error(...); return await response.json()
AfterPut(ok, status) ==
    IF ok THEN [pc |-> "returned", err |-> "none"]
    ELSE [pc |-> "thrown", err |-> status]

\* No error thrown.
NoError == [name |-> "none", message |-> <<>>]

\* 'GitHub token not configured. Please set VITE_GITHUB_TOKEN environment variable.'
MsgNotConfigured ==
    <<"G", "i", "t", "H", "u", "b", " ", "t", "o", "k", "e", "n", " ", "n", "o", "t",
      " ", "c", "o", "n", "f", "i", "g", "u", "r", "e", "d", ".", " ", "P", "l", "e",
      "a", "s", "e", " ", "s", "e", "t", " ", "V", "I", "T", "E", "_", "G", "I", "T",
      "H", "U", "B", "_", "T", "O", "K", "E", "N", " ", "e", "n", "v", "i", "r", "o",
      "n", "m", "e", "n", "t", " ", "v", "a", "r", "i", "a", "b", "l", "e", ".">>

\* 'Failed to save alert to CSV'
FailedAlert ==
    <<"F", "a", "i", "l", "e", "d", " ", "t", "o", " ", "s", "a", "v", "e", " ", "a",
      "l", "e", "r", "t", " ", "t", "o", " ", "C", "S", "V">>

\* 'Failed to save file to GitHub'
FailedFile ==
    <<"F", "a", "i", "l", "e", "d", " ", "t", "o", " ", "s", "a", "v", "e", " ", "f",
      "i", "l", "e", " ", "t", "o", " ", "G", "i", "t", "H", "u", "b">>

\* The message of the TypeError a rejected fetch carries.
MsgFetch == <<"F", "a", "i", "l", "e", "d", " ", "t", "o", " ", "f", "e", "t", "c", "h">>

\* The message of a host error response: a 5xx.
MsgServer == <<"S", "e", "r", "v", "e", "r", " ", "E", "r", "r", "o", "r">>

\* The message of a host error response: the 403 for a token without the
\* permission.
MsgToken ==
    <<"R", "e", "s", "o", "u", "r", "c", "e", " ", "n", "o", "t", " ", "a", "c", "c",
      "e", "s", "s", "i", "b", "l", "e", " ", "b", "y", " ", "p", "e", "r", "s", "o",
      "n", "a", "l", " ", "a", "c", "c", "e", "s", "s", " ", "t", "o", "k", "e", "n">>

\* The message of the SyntaxError response.json() throws for a body that is
\* not JSON.
MsgNotJson ==
    <<"U", "n", "e", "x", "p", "e", "c", "t", "e", "d", " ", "t", "o", "k", "e", "n",
      " ", "<", " ", "i", "n", " ", "J", "S", "O", "N", " ", "a", "t", " ", "p", "o",
      "s", "i", "t", "i", "o", "n", " ", "0">>

\* An error response whose body is not JSON.
NotJson == <<"not json">>

\* All the bodies of an error response tried: a JSON body without a message,
\* one with a message, and a body that is not JSON.
AllBodies == {UNDEF, MsgServer, NotJson}

\* throw new Error('GitHub token not configured. ...')
NotConfiguredError == [name |-> "Error", message |-> MsgNotConfigured]

\* What fetch rejects with.
FetchRejected == [name |-> "TypeError", message |-> MsgFetch]

\* const error = await response.json();
\* throw new Error(error.message || fallback)
ErrorOfResponse(body, fallback) ==
    IF body = NotJson THEN [name |-> "SyntaxError", message |-> MsgNotJson]
    ELSE [name |-> "Error", message |-> IF Truthy(body) THEN body ELSE fallback]

\* A slip for the token check: the token is taken to be there.
TokenAssumed == TRUE

\* getGitHubToken() as the check if (!token) reads it: set or not.
getGitHubToken == tokenSet

\* A slip for the variables of a call: csvContent and sha declared once, at
\* module level, so that every call uses the same ones.
SharedLocal(c) == 1

\* csvContent and sha are declared with let inside the function: each call has
\* its own, here the c-th ones.
Local(c) == c

\* A slip for the sha of a call: the sha of the response is never read.
ShaNeverRead(ok, fileSha) == NoSha

\* let sha = null; if (getResponse.ok) { ... sha = fileData.sha }
ShaOfResponse(ok, fileSha) == IF ok THEN fileSha ELSE NoSha

\* A host that accepts every PUT.
HostAcceptsAny(exists, ver, s) == TRUE

\* The contents API accepts a PUT only with the sha of the stored blob, and
\* one without a sha only when the path does not exist.
HostAcceptsAt(exists, ver, s) == IF exists THEN s = ver ELSE s = NoSha

HostAccepts(s) == HostAcceptsAt(hostExists, hostVer, s)

\* The statuses of a response that is not OK: 404 only for a missing path.
NotOkStatuses(exists) == IF exists THEN {"hosterror"} ELSE {"notfound", "hosterror"}

\* A slip for the answers of fetchAlertsFromCSV: a throw where it returns [].
ListOutcomeThrowing(resp, text) ==
    IF resp = "ok" THEN [value |-> ParseCSV(text), threw |-> FALSE]
    ELSE [value |-> <<>>, threw |-> TRUE]

\* What fetchAlertsFromCSV makes of its request: the parsed text of an OK
\* response, [] for a response that is not OK (line 209) and [] from the catch
\* block when fetch rejects (line 278). It never throws.
ListOutcome(resp, text) ==
    IF resp = "ok" THEN [value |-> ParseCSV(text), threw |-> FALSE]
    ELSE [value |-> <<>>, threw |-> FALSE]

InitLedger ==
    /\ tokenSet \in BOOLEAN
    /\ hostExists \in BOOLEAN
    /\ hostText = IF hostExists THEN CsvHeader ELSE <<>>
    /\ hostVer = IF hostExists THEN 1 ELSE 0
    /\ pc = [c \in Calls |-> "idle"]
    /\ csvContent = [c \in Calls |-> <<>>]
    /\ sha = [c \in Calls |-> NoSha]
    /\ err = [c \in Calls |-> "none"]
    /\ attempts = [c \in Calls |-> 0]
    /\ puts = [c \in Calls |-> 0]
    /\ getResp = [c \in Calls |-> "none"]
    /\ silent = [c \in Calls |-> FALSE]
    /\ stored = [c \in Calls |-> FALSE]
    /\ error = [c \in Calls |-> NoError]
    /\ lastList = <<>>
    /\ listResp = "none"
    /\ listSeen = {}
    /\ listThrew = FALSE

\* No saveFileToGitHub call: every call is an appendAlertToCSV call.
AppendsOnly ==
    /\ kind = [c \in Calls |-> "append"]
    /\ fileExists = FALSE
    /\ fileVer = 0
    /\ fileText = <<>>

CodecOff ==
    /\ records = <<>>
    /\ document = <<>>
    /\ decoded = <<>>
    /\ warnings = <<>>
    /\ phase = "off"

\* The error responses carry a message.
OneBody == bodies = {MsgServer}

\* useState(...) of Alerts.jsx, lines 38-46: the form before any submit.
FormIdle ==
    [ pc            |-> "idle",
      submitting    |-> FALSE,
      submitSuccess |-> FALSE,
      alertForm     |-> "filled",
      errors        |-> "none",
      backend       |-> "none",
      branch        |-> "none",
      timer         |-> FALSE ]

\* useState(...) of ImageUpload.jsx, lines 35-43.
UploadIdle ==
    [ pc               |-> "idle",
      run              |-> 0,
      selectedFile     |-> FALSE,
      uploading        |-> FALSE,
      backend          |-> "none",
      result           |-> "none",
      showDemoAnalysis |-> FALSE,
      previousUploads  |-> <<>> ]

\* useState(...) of FloatingChatbot, lines 24-26: the panel closed, no Chatbot
\* mounted. The fields from inst to messages are those of the mounted Chatbot;
\* requests holds the sendChatMessage calls in flight.
ChatIdle ==
    [ open            |-> FALSE,
      inputValue      |-> <<>>,
      sendTrigger     |-> 0,
      closeTimers     |-> 0,
      clearTimers     |-> 0,
      mounted         |-> FALSE,
      inst            |-> 0,
      lastSendTrigger |-> 0,
      inputValueRef   |-> <<>>,
      loading         |-> FALSE,
      messages        |-> <<>>,
      requests        |-> {},
      sent            |-> 0,
      exitClicks      |-> 0,
      exitClickSends  |-> 0 ]

\* No component is in use.
UiOff ==
    /\ form = [c \in Calls |-> FormIdle]
    /\ upload = UploadIdle
    /\ chat = ChatIdle

Init == InitLedger /\ AppendsOnly /\ OneBody /\ CodecOff /\ UiOff

\* Lines 122-142: the token check, then the GET request is sent.
AppendStartCall(c) ==
    /\ kind[c] = "append"
    /\ pc[c] = "idle"
    /\ IF getGitHubToken
       THEN /\ pc' = [pc EXCEPT ![c] = "get"]
            /\ attempts' = [attempts EXCEPT ![c] = @ + 1]
            /\ err' = err
            /\ error' = error
       ELSE /\ pc' = [pc EXCEPT ![c] = "thrown"]
            /\ err' = [err EXCEPT ![c] = "notconfigured"]
            /\ error' = [error EXCEPT ![c] = NotConfiguredError]
            /\ attempts' = attempts
    /\ UNCHANGED <<tokenSet, hostExists, hostText, hostVer, csvContent, sha,
                   lastList, listResp, listSeen, listThrew>>
    /\ UNCHANGED <<fileVars, requestVars, codecVars, stored, bodies>>

\* appendAlertToCSV called on its own, by no component.
AppendStart(c) == AppendStartCall(c) /\ UNCHANGED uiVars

\* Lines 144-184: an OK response to the GET; the row is appended and the PUT sent.
GetOk(c) ==
    /\ kind[c] = "append"
    /\ pc[c] = "get"
    /\ ~silent[c]
    /\ hostExists
    /\ LET fileData == [content |-> EncodeContent(hostText), sha |-> hostVer]
       IN  /\ csvContent' = [csvContent EXCEPT ![Local(c)] =
                   AppendRow(DecodeContent(fileData.content), NewRow(AlertData(c)))]
           /\ sha' = [sha EXCEPT ![Local(c)] = ShaOfResponse(TRUE, fileData.sha)]
    /\ getResp' = [getResp EXCEPT ![c] = "ok"]
    /\ puts' = [puts EXCEPT ![c] = @ + 1]
    /\ pc' = [pc EXCEPT ![c] = "put"]
    /\ UNCHANGED <<tokenSet, hostExists, hostText, hostVer, err, attempts,
                   lastList, listResp, listSeen, listThrew>>
    /\ UNCHANGED <<fileVars, silent, codecVars, outcomeVars, uiVars>>

\* Lines 144, 154-184: a response that is not OK (404 for a missing file, or a
\* host error): csvContent stays '' and sha stays null.
GetNotOk(c) ==
    /\ kind[c] = "append"
    /\ pc[c] = "get"
    /\ ~silent[c]
    /\ csvContent' = [csvContent EXCEPT ![Local(c)] = AppendRow(<<>>, NewRow(AlertData(c)))]
    /\ sha' = [sha EXCEPT ![Local(c)] = ShaOfResponse(FALSE, NoSha)]
    /\ \E status \in NotOkStatuses(hostExists) :
           getResp' = [getResp EXCEPT ![c] = status]
    /\ puts' = [puts EXCEPT ![c] = @ + 1]
    /\ pc' = [pc EXCEPT ![c] = "put"]
    /\ UNCHANGED <<tokenSet, hostExists, hostText, hostVer, err, attempts,
                   lastList, listResp, listSeen, listThrew>>
    /\ UNCHANGED <<fileVars, silent, codecVars, outcomeVars, uiVars>>

\* Lines 149-152, 154-184: fetch rejects (the network fails); the catch block
\* starts from the header.
GetThrows(c) ==
    /\ kind[c] = "append"
    /\ pc[c] = "get"
    /\ ~silent[c]
    /\ csvContent' = [csvContent EXCEPT ![Local(c)] =
           AppendRow(CsvHeader, NewRow(AlertData(c)))]
    /\ sha' = [sha EXCEPT ![Local(c)] = ShaOfResponse(FALSE, NoSha)]
    /\ getResp' = [getResp EXCEPT ![c] = "network"]
    /\ puts' = [puts EXCEPT ![c] = @ + 1]
    /\ pc' = [pc EXCEPT ![c] = "put"]
    /\ UNCHANGED <<tokenSet, hostExists, hostText, hostVer, err, attempts,
                   lastList, listResp, listSeen, listThrew>>
    /\ UNCHANGED <<fileVars, silent, codecVars, outcomeVars, uiVars>>

\* Lines 169-191: the host accepts the PUT and the call returns.
PutOk(c) ==
    /\ kind[c] = "append"
    /\ pc[c] = "put"
    /\ ~silent[c]
    /\ HostAccepts(sha[Local(c)])
    /\ hostExists' = TRUE
    /\ hostText' = DecodeContent(EncodeContent(csvContent[Local(c)]))
    /\ hostVer' = hostVer + 1
    /\ stored' = [stored EXCEPT ![c] = TRUE]
    /\ pc' = [pc EXCEPT ![c] = AfterPut(TRUE, "ok").pc]
    /\ err' = [err EXCEPT ![c] = AfterPut(TRUE, "ok").err]
    /\ UNCHANGED <<tokenSet, csvContent, sha, attempts, lastList, listResp, listSeen,
                   listThrew>>
    /\ UNCHANGED <<fileVars, requestVars, codecVars, error, bodies, uiVars>>

\* Lines 186-195: the host rejects the PUT because the sha is not the stored one.
PutConflict(c) ==
    /\ kind[c] = "append"
    /\ pc[c] = "put"
    /\ ~silent[c]
    /\ ~HostAccepts(sha[Local(c)])
    /\ \E body \in bodies :
           error' = [error EXCEPT ![c] = ErrorOfResponse(body, FailedAlert)]
    /\ pc' = [pc EXCEPT ![c] = AfterPut(FALSE, "conflict").pc]
    /\ err' = [err EXCEPT ![c] = AfterPut(FALSE, "conflict").err]
    /\ UNCHANGED <<tokenSet, hostExists, hostText, hostVer, csvContent, sha, attempts,
                   lastList, listResp, listSeen, listThrew>>
    /\ UNCHANGED <<fileVars, requestVars, codecVars, stored, bodies, uiVars>>

\* Lines 186-195: the host answers the PUT with another error status.
PutHostError(c) ==
    /\ kind[c] = "append"
    /\ pc[c] = "put"
    /\ ~silent[c]
    /\ \E body \in bodies :
           error' = [error EXCEPT ![c] = ErrorOfResponse(body, FailedAlert)]
    /\ pc' = [pc EXCEPT ![c] = AfterPut(FALSE, "hosterror").pc]
    /\ err' = [err EXCEPT ![c] = AfterPut(FALSE, "hosterror").err]
    /\ UNCHANGED <<tokenSet, hostExists, hostText, hostVer, csvContent, sha, attempts,
                   lastList, listResp, listSeen, listThrew>>
    /\ UNCHANGED <<fileVars, requestVars, codecVars, stored, bodies, uiVars>>

\* Lines 169, 192-195: fetch rejects before the PUT reaches the host.
PutThrows(c) ==
    /\ kind[c] = "append"
    /\ pc[c] = "put"
    /\ ~silent[c]
    /\ error' = [error EXCEPT ![c] = FetchRejected]
    /\ pc' = [pc EXCEPT ![c] = "thrown"]
    /\ err' = [err EXCEPT ![c] = "network"]
    /\ UNCHANGED <<tokenSet, hostExists, hostText, hostVer, csvContent, sha, attempts,
                   lastList, listResp, listSeen, listThrew>>
    /\ UNCHANGED <<fileVars, requestVars, codecVars, stored, bodies, uiVars>>

\* Lines 169, 192-195: the host stores the PUT, but its response does not
\* arrive: fetch rejects, and the call throws without having seen the answer.
PutLost(c) ==
    /\ kind[c] = "append"
    /\ pc[c] = "put"
    /\ ~silent[c]
    /\ HostAccepts(sha[Local(c)])
    /\ hostExists' = TRUE
    /\ hostText' = DecodeContent(EncodeContent(csvContent[Local(c)]))
    /\ hostVer' = hostVer + 1
    /\ stored' = [stored EXCEPT ![c] = TRUE]
    /\ error' = [error EXCEPT ![c] = FetchRejected]
    /\ pc' = [pc EXCEPT ![c] = "thrown"]
    /\ err' = [err EXCEPT ![c] = "network"]
    /\ UNCHANGED <<tokenSet, csvContent, sha, attempts, lastList, listResp, listSeen,
                   listThrew>>
    /\ UNCHANGED <<fileVars, requestVars, codecVars, bodies, uiVars>>

Returned == {c \in Calls : kind[c] = "append" /\ pc[c] = "returned"}

\* fetchAlertsFromCSV, lines 205-275: an OK response carrying the stored text.
ListOk ==
    /\ hostExists
    /\ lastList' = ListOutcome("ok", hostText).value
    /\ listThrew' = ListOutcome("ok", hostText).threw
    /\ listResp' = "ok"
    /\ listSeen' = Returned
    /\ UNCHANGED <<tokenSet, hostExists, hostText, hostVer, pc, csvContent, sha, err, attempts>>
    /\ UNCHANGED <<fileVars, requestVars, codecVars, outcomeVars, uiVars>>

\* fetchAlertsFromCSV, lines 207-210: a response that is not OK.
ListNotOk ==
    /\ \E status \in NotOkStatuses(hostExists) :
           /\ lastList' = ListOutcome(status, <<>>).value
           /\ listThrew' = ListOutcome(status, <<>>).threw
           /\ listResp' = status
    /\ listSeen' = Returned
    /\ UNCHANGED <<tokenSet, hostExists, hostText, hostVer, pc, csvContent, sha, err, attempts>>
    /\ UNCHANGED <<fileVars, requestVars, codecVars, outcomeVars, uiVars>>

\* fetchAlertsFromCSV, lines 276-279: fetch rejects and the catch block returns [].
ListThrows ==
    /\ lastList' = ListOutcome("network", <<>>).value
    /\ listThrew' = ListOutcome("network", <<>>).threw
    /\ listResp' = "network"
    /\ listSeen' = Returned
    /\ UNCHANGED <<tokenSet, hostExists, hostText, hostVer, pc, csvContent, sha, err, attempts>>
    /\ UNCHANGED <<fileVars, requestVars, codecVars, outcomeVars, uiVars>>

Next ==
    \/ \E c \in Calls : AppendStart(c)
    \/ \E c \in Calls : GetOk(c)
    \/ \E c \in Calls : GetNotOk(c)
    \/ \E c \in Calls : GetThrows(c)
    \/ \E c \in Calls : PutOk(c)
    \/ \E c \in Calls : PutConflict(c)
    \/ \E c \in Calls : PutHostError(c)
    \/ \E c \in Calls : PutThrows(c)
    \/ \E c \in Calls : PutLost(c)
    \/ ListOk
    \/ ListNotOk
    \/ ListThrows

Spec == Init /\ [][Next]_vars

\* ------------------------------------------------------------------ saveFileToGitHub

\* The content argument of the c-th saveFileToGitHub call.
Content(c) == <<"f", Digits[c]>>

\* The path saveFileToGitHub writes accepts a PUT as Alerts.csv does.
FileAccepts(s) == HostAcceptsAt(fileExists, fileVer, s)

\* The calls are appendAlertToCSV calls, then saveFileToGitHub calls, all of
\* the latter for one filePath.
InitKinds ==
    /\ \E n \in 0..NumCalls : kind = [c \in Calls |-> IF c <= n THEN "append" ELSE "save"]
    /\ fileExists \in BOOLEAN
    /\ fileVer = IF fileExists THEN 1 ELSE 0
    /\ fileText = <<>>

InitSave == InitLedger /\ InitKinds /\ bodies = AllBodies /\ CodecOff /\ UiOff

\* Lines 28-44: the token check, then the GET request is sent.
SaveStartCall(c) ==
    /\ kind[c] = "save"
    /\ pc[c] = "idle"
    /\ IF getGitHubToken
       THEN /\ pc' = [pc EXCEPT ![c] = "get"]
            /\ attempts' = [attempts EXCEPT ![c] = @ + 1]
            /\ err' = err
            /\ error' = error
       ELSE /\ pc' = [pc EXCEPT ![c] = "thrown"]
            /\ err' = [err EXCEPT ![c] = "notconfigured"]
            /\ error' = [error EXCEPT ![c] = NotConfiguredError]
            /\ attempts' = attempts
    /\ UNCHANGED <<tokenSet, hostExists, hostText, hostVer, csvContent, sha,
                   lastList, listResp, listSeen, listThrew>>
    /\ UNCHANGED <<fileVars, requestVars, codecVars, stored, bodies>>

\* saveFileToGitHub called on its own, by no component.
SaveStart(c) == SaveStartCall(c) /\ UNCHANGED uiVars

\* Lines 46-50, 56-75: an OK response to the GET; its sha is kept and the PUT sent.
SaveGetOk(c) ==
    /\ kind[c] = "save"
    /\ pc[c] = "get"
    /\ ~silent[c]
    /\ fileExists
    /\ LET fileData == [sha |-> fileVer]
       IN  sha' = [sha EXCEPT ![Local(c)] = ShaOfResponse(TRUE, fileData.sha)]
    /\ getResp' = [getResp EXCEPT ![c] = "ok"]
    /\ puts' = [puts EXCEPT ![c] = @ + 1]
    /\ pc' = [pc EXCEPT ![c] = "put"]
    /\ UNCHANGED <<tokenSet, hostExists, hostText, hostVer, csvContent, err, attempts,
                   lastList, listResp, listSeen, listThrew>>
    /\ UNCHANGED <<fileVars, silent, codecVars, outcomeVars, uiVars>>

\* Lines 46, 56-75: a response that is not OK; sha stays null and the PUT is sent.
SaveGetNotOk(c) ==
    /\ kind[c] = "save"
    /\ pc[c] = "get"
    /\ ~silent[c]
    /\ sha' = [sha EXCEPT ![Local(c)] = ShaOfResponse(FALSE, NoSha)]
    /\ \E status \in NotOkStatuses(fileExists) :
           getResp' = [getResp EXCEPT ![c] = status]
    /\ puts' = [puts EXCEPT ![c] = @ + 1]
    /\ pc' = [pc EXCEPT ![c] = "put"]
    /\ UNCHANGED <<tokenSet, hostExists, hostText, hostVer, csvContent, err, attempts,
                   lastList, listResp, listSeen, listThrew>>
    /\ UNCHANGED <<fileVars, silent, codecVars, outcomeVars, uiVars>>

\* Lines 51-54, 56-75: fetch rejects; the catch block logs and the PUT is sent.
SaveGetThrows(c) ==
    /\ kind[c] = "save"
    /\ pc[c] = "get"
    /\ ~silent[c]
    /\ sha' = [sha EXCEPT ![Local(c)] = ShaOfResponse(FALSE, NoSha)]
    /\ getResp' = [getResp EXCEPT ![c] = "network"]
    /\ puts' = [puts EXCEPT ![c] = @ + 1]
    /\ pc' = [pc EXCEPT ![c] = "put"]
    /\ UNCHANGED <<tokenSet, hostExists, hostText, hostVer, csvContent, err, attempts,
                   lastList, listResp, listSeen, listThrew>>
    /\ UNCHANGED <<fileVars, silent, codecVars, outcomeVars, uiVars>>

\* Lines 60-82: the host accepts the PUT and the call returns.
SavePutOk(c) ==
    /\ kind[c] = "save"
    /\ pc[c] = "put"
    /\ ~silent[c]
    /\ FileAccepts(sha[Local(c)])
    /\ fileExists' = TRUE
    /\ fileText' = DecodeContent(EncodeContent(Content(c)))
    /\ fileVer' = fileVer + 1
    /\ stored' = [stored EXCEPT ![c] = TRUE]
    /\ pc' = [pc EXCEPT ![c] = AfterPut(TRUE, "ok").pc]
    /\ err' = [err EXCEPT ![c] = AfterPut(TRUE, "ok").err]
    /\ UNCHANGED <<tokenSet, hostExists, hostText, hostVer, csvContent, sha, attempts,
                   lastList, listResp, listSeen, listThrew>>
    /\ UNCHANGED <<kind, requestVars, codecVars, error, bodies, uiVars>>

\* Lines 77-86: the host rejects the PUT because the sha is not the stored one.
SavePutConflict(c) ==
    /\ kind[c] = "save"
    /\ pc[c] = "put"
    /\ ~silent[c]
    /\ ~FileAccepts(sha[Local(c)])
    /\ \E body \in bodies :
           error' = [error EXCEPT ![c] = ErrorOfResponse(body, FailedFile)]
    /\ pc' = [pc EXCEPT ![c] = AfterPut(FALSE, "conflict").pc]
    /\ err' = [err EXCEPT ![c] = AfterPut(FALSE, "conflict").err]
    /\ UNCHANGED <<tokenSet, hostExists, hostText, hostVer, csvContent, sha, attempts,
                   lastList, listResp, listSeen, listThrew>>
    /\ UNCHANGED <<fileVars, requestVars, codecVars, stored, bodies, uiVars>>

\* Lines 77-86: the host answers the PUT with another error status.
SavePutHostError(c) ==
    /\ kind[c] = "save"
    /\ pc[c] = "put"
    /\ ~silent[c]
    /\ \E body \in bodies :
           error' = [error EXCEPT ![c] = ErrorOfResponse(body, FailedFile)]
    /\ pc' = [pc EXCEPT ![c] = AfterPut(FALSE, "hosterror").pc]
    /\ err' = [err EXCEPT ![c] = AfterPut(FALSE, "hosterror").err]
    /\ UNCHANGED <<tokenSet, hostExists, hostText, hostVer, csvContent, sha, attempts,
                   lastList, listResp, listSeen, listThrew>>
    /\ UNCHANGED <<fileVars, requestVars, codecVars, stored, bodies, uiVars>>

\* Lines 60, 83-86: fetch rejects before the PUT reaches the host.
SavePutThrows(c) ==
    /\ kind[c] = "save"
    /\ pc[c] = "put"
    /\ ~silent[c]
    /\ error' = [error EXCEPT ![c] = FetchRejected]
    /\ pc' = [pc EXCEPT ![c] = "thrown"]
    /\ err' = [err EXCEPT ![c] = "network"]
    /\ UNCHANGED <<tokenSet, hostExists, hostText, hostVer, csvContent, sha, attempts,
                   lastList, listResp, listSeen, listThrew>>
    /\ UNCHANGED <<fileVars, requestVars, codecVars, stored, bodies, uiVars>>

\* Lines 60, 83-86: the host stores the PUT, but its response does not
\* arrive: fetch rejects.
SavePutLost(c) ==
    /\ kind[c] = "save"
    /\ pc[c] = "put"
    /\ ~silent[c]
    /\ FileAccepts(sha[Local(c)])
    /\ fileExists' = TRUE
    /\ fileText' = DecodeContent(EncodeContent(Content(c)))
    /\ fileVer' = fileVer + 1
    /\ stored' = [stored EXCEPT ![c] = TRUE]
    /\ error' = [error EXCEPT ![c] = FetchRejected]
    /\ pc' = [pc EXCEPT ![c] = "thrown"]
    /\ err' = [err EXCEPT ![c] = "network"]
    /\ UNCHANGED <<tokenSet, hostExists, hostText, hostVer, csvContent, sha, attempts,
                   lastList, listResp, listSeen, listThrew>>
    /\ UNCHANGED <<kind, requestVars, codecVars, bodies, uiVars>>

NextSave ==
    \/ \E c \in Calls : AppendStart(c)
    \/ \E c \in Calls : GetOk(c)
    \/ \E c \in Calls : GetNotOk(c)
    \/ \E c \in Calls : GetThrows(c)
    \/ \E c \in Calls : PutOk(c)
    \/ \E c \in Calls : PutConflict(c)
    \/ \E c \in Calls : PutHostError(c)
    \/ \E c \in Calls : PutThrows(c)
    \/ \E c \in Calls : PutLost(c)
    \/ \E c \in Calls : SaveStart(c)
    \/ \E c \in Calls : SaveGetOk(c)
    \/ \E c \in Calls : SaveGetNotOk(c)
    \/ \E c \in Calls : SaveGetThrows(c)
    \/ \E c \in Calls : SavePutOk(c)
    \/ \E c \in Calls : SavePutConflict(c)
    \/ \E c \in Calls : SavePutHostError(c)
    \/ \E c \in Calls : SavePutThrows(c)
    \/ \E c \in Calls : SavePutLost(c)

\* Concurrent appendAlertToCSV and saveFileToGitHub calls.
SpecSave == InitSave /\ [][NextSave]_vars

\* ------------------------------------------------------------------ a silent host

\* The host never answers the request a call has in flight. fetch is called
\* without a signal (lines 134, 169; 37, 60): nothing aborts it, and its
\* promise stays pending.
HostSilent(c) ==
    /\ pc[c] \in {"get", "put"}
    /\ ~silent[c]
    /\ silent' = [silent EXCEPT ![c] = TRUE]
    /\ UNCHANGED <<ledgerVars, listThrew, fileVars, puts, getResp, codecVars, outcomeVars, uiVars>>

NextSilent ==
    \/ Next
    \/ \E c \in Calls : HostSilent(c)

\* The calls of Spec against a host that may stop answering.
SpecSilent == Init /\ [][NextSilent]_vars

\* ------------------------------------------------------------------ Alerts.jsx: handleSubmit

\* 'token'
TokenWord == <<"t", "o", "k", "e", "n">>

\* String.prototype.includes
Includes(s, sub) ==
    \E i \in 1..(Len(s) - Len(sub) + 1) : SubSeq(s, i, i + Len(sub) - 1) = sub

\* Alerts.jsx imports appendAlertToCSV and fetchAlertsFromCSV (line 35) and
\* declares no loadAlertsFromCSV: the identifier of line 189 is unbound.
LoadAlertsFromCSVDeclared == FALSE

\* Alerts.jsx has setErrors (line 44) and no setError: the identifier of
\* lines 198, 200 and 215 is unbound.
SetErrorDeclared == FALSE

\* The ReferenceError of line 189.
LoadAlertsNotDefined ==
    [ name |-> "ReferenceError",
      message |-> <<"l", "o", "a", "d", "A", "l", "e", "r", "t", "s", "F", "r", "o", "m", "C", "S", "V", " ", "i", "s", " ", "n", "o", "t", " ", "d", "e", "f", "i", "n", "e", "d">> ]

\* A slip for the finally block: setSubmitting(false) is left out.
SubmitTailStuck(f, returned, thrownError) == [f EXCEPT !.pc = "done"]

\* Lines 187-221 of handleSubmit, from the point where the awaited
\* appendAlertToCSV has returned or thrown to the end of the handler.
SubmitTail(f, returned, thrownError) ==
    LET \* lines 187-191: the rest of the try block
        githubErr ==
            IF ~returned THEN thrownError
            ELSE IF LoadAlertsFromCSVDeclared THEN NoError
            ELSE LoadAlertsNotDefined
        f1 == IF githubErr = NoError THEN [f EXCEPT !.submitSuccess = TRUE] ELSE f
        \* lines 192-202: catch (githubErr)
        token == githubErr # NoError /\ Includes(githubErr.message, TokenWord)
        f2 == IF githubErr = NoError THEN f1
              ELSE IF token THEN [f1 EXCEPT !.branch = "token", !.submitSuccess = TRUE]
              ELSE [f1 EXCEPT !.branch = "other"]
        \* setError(...) throws a ReferenceError out of the catch block
        escaped == githubErr # NoError /\ ~SetErrorDeclared
        \* lines 204-216: the form is reset and the timer armed
        f3 == IF escaped THEN f2
              ELSE [f2 EXCEPT !.alertForm = "defaults", !.errors = "none", !.timer = TRUE]
        \* lines 217-221: catch (error) logs; finally setSubmitting(false)
    IN  [f3 EXCEPT !.submitting = FALSE, !.pc = "done"]

\* The error responses carry one of two messages, one of them with the
\* word token in it.
InitForm ==
    /\ InitLedger
    /\ AppendsOnly
    /\ bodies = {MsgServer, MsgToken}
    /\ CodecOff
    /\ UiOff

\* Lines 153-157: validateForm() finds an error; setErrors, and return.
SubmitInvalid(c) ==
    /\ form[c].pc = "idle"
    /\ form' = [form EXCEPT ![c].errors = "invalid"]
    /\ UNCHANGED <<ledgerVars, listThrew, fileVars, requestVars, outcomeVars, codecVars,
                   upload, chat>>

\* Lines 153-174: validateForm() passes; submitting is set, submitSuccess
\* cleared, and sendChatMessage called.
SubmitStart(c) ==
    /\ form[c].pc = "idle"
    /\ form' = [form EXCEPT ![c].errors = "none",
                            ![c].submitting = TRUE,
                            ![c].submitSuccess = FALSE,
                            ![c].pc = "backend"]
    /\ UNCHANGED <<ledgerVars, listThrew, fileVars, requestVars, outcomeVars, codecVars,
                   upload, chat>>

\* Lines 173-186: sendChatMessage resolves; appendAlertToCSV is called.
SubmitBackendOk(c) ==
    /\ form[c].pc = "backend"
    /\ AppendStartCall(c)
    /\ form' = [form EXCEPT ![c].backend = "ok", ![c].pc = "append"]
    /\ UNCHANGED <<upload, chat>>

\* Lines 173-186: sendChatMessage rejects, which is logged; appendAlertToCSV
\* is called.
SubmitBackendFails(c) ==
    /\ form[c].pc = "backend"
    /\ AppendStartCall(c)
    /\ form' = [form EXCEPT ![c].backend = "failed", ![c].pc = "append"]
    /\ UNCHANGED <<upload, chat>>

\* Lines 187-221: appendAlertToCSV has returned.
SubmitAppendReturned(c) ==
    /\ form[c].pc = "append"
    /\ pc[c] = "returned"
    /\ form' = [form EXCEPT ![c] = SubmitTail(form[c], TRUE, NoError)]
    /\ UNCHANGED <<ledgerVars, listThrew, fileVars, requestVars, outcomeVars, codecVars,
                   upload, chat>>

\* Lines 192-221: appendAlertToCSV has thrown.
SubmitAppendThrew(c) ==
    /\ form[c].pc = "append"
    /\ pc[c] = "thrown"
    /\ form' = [form EXCEPT ![c] = SubmitTail(form[c], FALSE, error[c])]
    /\ UNCHANGED <<ledgerVars, listThrew, fileVars, requestVars, outcomeVars, codecVars,
                   upload, chat>>

\* The steps of the c-th form and of its appendAlertToCSV call.
SubmitStep(c) ==
    \/ SubmitInvalid(c)
    \/ SubmitStart(c)
    \/ SubmitBackendOk(c)
    \/ SubmitBackendFails(c)
    \/ GetOk(c)
    \/ GetNotOk(c)
    \/ GetThrows(c)
    \/ PutOk(c)
    \/ PutConflict(c)
    \/ PutHostError(c)
    \/ PutThrows(c)
    \/ PutLost(c)
    \/ SubmitAppendReturned(c)
    \/ SubmitAppendThrew(c)

NextForm ==
    \/ \E c \in Calls : SubmitInvalid(c)
    \/ \E c \in Calls : SubmitStart(c)
    \/ \E c \in Calls : SubmitBackendOk(c)
    \/ \E c \in Calls : SubmitBackendFails(c)
    \/ \E c \in Calls : GetOk(c)
    \/ \E c \in Calls : GetNotOk(c)
    \/ \E c \in Calls : GetThrows(c)
    \/ \E c \in Calls : PutOk(c)
    \/ \E c \in Calls : PutConflict(c)
    \/ \E c \in Calls : PutHostError(c)
    \/ \E c \in Calls : PutThrows(c)
    \/ \E c \in Calls : PutLost(c)
    \/ \E c \in Calls : SubmitAppendReturned(c)
    \/ \E c \in Calls : SubmitAppendThrew(c)

\* Alert forms, one per page, each submitted once.
SpecForm == InitForm /\ [][NextForm]_vars

\* ------------------------------------------------------------------ ImageUpload.jsx: handleUpload

\* The event reader.onerror rejects with: it has no message.
ReadFailed == [name |-> "ProgressEvent", message |-> UNDEF]

\* The bodies uploadImage may resolve with: one with an analysis, one with a
\* prediction, one with neither.
UploadResponses == {"analysis", "prediction", "plain"}

\* A slip for the list of uploads: the file is added only after a save that
\* returned.
UploadTailOnSuccess(u, returned, thrownError) ==
    [u EXCEPT !.previousUploads = IF returned THEN <<u.run>> \o @ ELSE @,
              !.uploading = FALSE,
              !.pc = "idle"]

\* Lines 189-233 of handleUpload, from the point where the awaited
\* saveImageToGitHub has returned or thrown to the end of the handler.
UploadTail(u, returned, thrownError) ==
    LET uploadResponse == u.backend \in UploadResponses
        \* lines 189-204: setResult of the try block, or of catch (githubErr)
        result ==
            IF returned THEN "saved"
            ELSE IF uploadResponse /\ ~Includes(thrownError.message, TokenWord)
            THEN "failedSave"
            ELSE u.result
        \* lines 215-225
        demo == u.backend \notin {"analysis", "prediction"}
    IN  [u EXCEPT !.result = result,
                  \* lines 206-214: setPreviousUploads(prev => [newUpload, ...prev])
                  !.previousUploads = <<u.run>> \o @,
                  !.showDemoAnalysis = demo,
                  \* lines 229-231: finally
                  !.uploading = FALSE,
                  !.pc = "idle"]

\* Every call is a saveFileToGitHub call, made by the component.
InitUpload ==
    /\ InitLedger
    /\ kind = [c \in Calls |-> "save"]
    /\ fileExists \in BOOLEAN
    /\ fileVer = (IF fileExists THEN 1 ELSE 0)
    /\ fileText = <<>>
    /\ OneBody
    /\ CodecOff
    /\ UiOff

\* handleFileSelect, lines 125-163: an image of the right size is chosen.
FileSelect ==
    /\ ~upload.selectedFile
    /\ upload' = [upload EXCEPT !.selectedFile = TRUE]
    /\ UNCHANGED <<ledgerVars, listThrew, fileVars, requestVars, outcomeVars, codecVars,
                   form, chat>>

\* handleClear, lines 236-244. The handleUpload that is running keeps the
\* file it started with.
UploadClear ==
    /\ upload.selectedFile
    /\ upload' = [upload EXCEPT !.selectedFile = FALSE, !.result = "none",
                                !.showDemoAnalysis = FALSE]
    /\ UNCHANGED <<ledgerVars, listThrew, fileVars, requestVars, outcomeVars, codecVars,
                   form, chat>>

\* Lines 165-178: handleUpload with a file selected, the button being
\* enabled (line 491); uploadImage is called. It is the c-th upload.
UploadStart(c) ==
    /\ upload.pc = "idle"
    /\ upload.selectedFile
    /\ ~upload.uploading
    /\ pc[c] = "idle"
    /\ \A d \in 1..(c - 1) : pc[d] # "idle"
    /\ upload' = [upload EXCEPT !.uploading = TRUE, !.result = "none",
                                !.backend = "none", !.run = c, !.pc = "backend"]
    /\ UNCHANGED <<ledgerVars, listThrew, fileVars, requestVars, outcomeVars, codecVars,
                   form, chat>>

\* Lines 175-188 and github.js 95-106: uploadImage resolves; saveImageToGitHub
\* reads the file and calls saveFileToGitHub.
UploadBackendOk(c) ==
    /\ upload.pc = "backend"
    /\ upload.run = c
    /\ SaveStartCall(c)
    /\ \E resp \in UploadResponses :
           upload' = [upload EXCEPT !.backend = resp, !.pc = "save"]
    /\ UNCHANGED <<form, chat>>

\* Lines 179-188 and github.js 95-106: uploadImage rejects, which is logged;
\* saveImageToGitHub reads the file and calls saveFileToGitHub.
UploadBackendFails(c) ==
    /\ upload.pc = "backend"
    /\ upload.run = c
    /\ SaveStartCall(c)
    /\ upload' = [upload EXCEPT !.backend = "failed", !.pc = "save"]
    /\ UNCHANGED <<form, chat>>

\* github.js 111 and lines 189-233: the FileReader fails, saveImageToGitHub
\* rejects without a call of saveFileToGitHub.
UploadReadFails(c) ==
    /\ upload.pc = "backend"
    /\ upload.run = c
    /\ \E resp \in UploadResponses \cup {"failed"} :
           upload' = UploadTail([upload EXCEPT !.backend = resp], FALSE, ReadFailed)
    /\ pc' = [pc EXCEPT ![c] = "thrown"]
    /\ err' = [err EXCEPT ![c] = "read"]
    /\ error' = [error EXCEPT ![c] = ReadFailed]
    /\ UNCHANGED <<tokenSet, hostExists, hostText, hostVer, csvContent, sha, attempts,
                   lastList, listResp, listSeen, listThrew>>
    /\ UNCHANGED <<fileVars, requestVars, stored, bodies, codecVars, form, chat>>

\* Lines 189-233: saveImageToGitHub has resolved.
UploadSaveReturned(c) ==
    /\ upload.pc = "save"
    /\ upload.run = c
    /\ pc[c] = "returned"
    /\ upload' = UploadTail(upload, TRUE, NoError)
    /\ UNCHANGED <<ledgerVars, listThrew, fileVars, requestVars, outcomeVars, codecVars,
                   form, chat>>

\* Lines 194-233: saveImageToGitHub has rejected.
UploadSaveThrew(c) ==
    /\ upload.pc = "save"
    /\ upload.run = c
    /\ pc[c] = "thrown"
    /\ upload' = UploadTail(upload, FALSE, error[c])
    /\ UNCHANGED <<ledgerVars, listThrew, fileVars, requestVars, outcomeVars, codecVars,
                   form, chat>>

NextUpload ==
    \/ FileSelect
    \/ UploadClear
    \/ \E c \in Calls : UploadStart(c)
    \/ \E c \in Calls : UploadBackendOk(c)
    \/ \E c \in Calls : UploadBackendFails(c)
    \/ \E c \in Calls : UploadReadFails(c)
    \/ \E c \in Calls : SaveGetOk(c)
    \/ \E c \in Calls : SaveGetNotOk(c)
    \/ \E c \in Calls : SaveGetThrows(c)
    \/ \E c \in Calls : SavePutOk(c)
    \/ \E c \in Calls : SavePutConflict(c)
    \/ \E c \in Calls : SavePutHostError(c)
    \/ \E c \in Calls : SavePutThrows(c)
    \/ \E c \in Calls : SavePutLost(c)
    \/ \E c \in Calls : UploadSaveReturned(c)
    \/ \E c \in Calls : UploadSaveThrew(c)

\* One ImageUpload component and its uploads, one after the other.
SpecUpload == InitUpload /\ [][NextUpload]_vars

\* ------------------------------------------------------------------ codec runs

\* The longest text tried in a field.
MaxLen == 2

\* The most records encoded into one document.
MaxRecords == 2

\* A letter, the delimiter, the quote and a space.
Alphabet == {"a", COMMA, Q, SP}

Texts == UNION {[1..k -> Alphabet] : k \in 0..MaxLen}

\* The free-text fields of a record (severity is an enumeration, timestamp an
\* ISO-8601 date).
TextFields == {"location", "description", "contactInfo", "status"}

PlainRecord ==
    [ location    |-> <<"a">>,
      severity    |-> <<"l", "o", "w">>,
      description |-> <<"a">>,
      contactInfo |-> UNDEF,
      timestamp   |-> <<"1">>,
      status      |-> UNDEF,
      verified    |-> FALSE ]

PlainRecords ==
    { PlainRecord,
      [PlainRecord EXCEPT !.contactInfo = <<"a">>, !.status = TextPending,
                          !.verified = TRUE] }

\* PlainRecord with one text field set to any text.
VariedRecords == {[PlainRecord EXCEPT ![f] = txt] : f \in TextFields, txt \in Texts}

Varied(rs) == {k \in 1..Len(rs) : rs[k] \notin PlainRecords}

\* Texts of spaces and newlines only, the empty text among them.
BlankTexts == UNION {[1..k -> {SP, NL}] : k \in 0..MaxLen}

\* The texts a run starts from: the header as appendAlertToCSV writes it, the
\* header without its newline, and the blank texts.
StartDocuments == {CsvHeader, Trim(CsvHeader)} \cup BlankTexts

LedgerOff ==
    /\ tokenSet = FALSE
    /\ hostExists = FALSE
    /\ hostText = <<>>
    /\ hostVer = 0
    /\ pc = [c \in Calls |-> "idle"]
    /\ csvContent = [c \in Calls |-> <<>>]
    /\ sha = [c \in Calls |-> NoSha]
    /\ err = [c \in Calls |-> "none"]
    /\ attempts = [c \in Calls |-> 0]
    /\ lastList = <<>>
    /\ listResp = "none"
    /\ listSeen = {}
    /\ listThrew = FALSE
    /\ puts = [c \in Calls |-> 0]
    /\ getResp = [c \in Calls |-> "none"]
    /\ silent = [c \in Calls |-> FALSE]
    /\ stored = [c \in Calls |-> FALSE]
    /\ error = [c \in Calls |-> NoError]
    /\ bodies = {MsgServer}
    /\ AppendsOnly
    /\ UiOff

InitCodec ==
    /\ LedgerOff
    /\ records = <<>>
    /\ document \in StartDocuments
    /\ decoded = <<>>
    /\ warnings = <<>>
    /\ phase = "build"

\* Lines 154-165 on a document that starts with the header: the row of one
\* more record is appended. At most one record of a run is a varied one.
CodecAppend(r) ==
    /\ phase = "build"
    /\ Len(document) >= Len(CsvHeader)
    /\ SubSeq(document, 1, Len(CsvHeader)) = CsvHeader
    /\ Len(records) < MaxRecords
    /\ r \in PlainRecords \/ Varied(records) = {}
    /\ records' = Append(records, r)
    /\ document' = AppendRow(document, NewRow(r))
    /\ UNCHANGED <<decoded, warnings, phase>>
    /\ UNCHANGED <<ledgerVars, listThrew, fileVars, requestVars, outcomeVars, uiVars>>

\* Lines 212-275: the document is parsed.
CodecParse ==
    /\ phase = "build"
    /\ decoded' = ParseCSV(document)
    /\ warnings' = SkipWarnings(document)
    /\ phase' = "parsed"
    /\ UNCHANGED <<records, document>>
    /\ UNCHANGED <<ledgerVars, listThrew, fileVars, requestVars, outcomeVars, uiVars>>

NextCodec ==
    \/ \E r \in PlainRecords \cup VariedRecords : CodecAppend(r)
    \/ CodecParse

SpecCodec == InitCodec /\ [][NextCodec]_vars

\* ------------------------------------------------------------------ the chat

\* Clicks and Enter presses of a run.
MaxSends == 2

\* Chatbot instances mounted in a run.
MaxMounts == 2

\* 'exit', the text of the exit button and of the exit branch of handleSend.
ExitWord == <<"e", "x", "i", "t">>

\* What the user types into the floating input: a message, the exit command
\* with a space and a capital, a space.
TypedTexts == {<<"h", "i">>, <<SP, "E", "x", "i", "t">>, <<SP>>}

\* The greeting of useState at lines 21-26 of Chatbot.jsx.
Greeting == [role |-> "assistant", content |-> "greeting"]

\* A slip for the guard of handleSend: loading is not looked at.
IgnoredOnlyEmpty(message, loading) == message = <<>>

\* Line 49 of Chatbot.jsx: if (!message || loading) return
Ignored(message, loading) == message = <<>> \/ loading

\* Lines 47-75 of Chatbot.jsx, handleSend up to its await. The Chatbot renders
\* no field for its input state, which stays '', so message is messageToSend.
HandleSend(ch, messageToSend) ==
    LET message == messageToSend
        userMessage == Trim(message)
        request(exit) == [inst |-> ch.inst, exit |-> exit, id |-> ch.sent + 1]
    IN  IF Ignored(message, ch.loading) THEN ch
        ELSE IF ToLowerCase(userMessage) = ExitWord
        THEN [ch EXCEPT !.requests = @ \cup {request(TRUE)},
                        !.sent = @ + 1]
        ELSE [ch EXCEPT !.loading = TRUE,
                        !.messages = Append(@, [role |-> "user", content |-> "text"]),
                        !.requests = @ \cup {request(FALSE)},
                        !.sent = @ + 1]

\* The effects of Chatbot.jsx after a render, in the order of their
\* declaration: lines 35-37 copy inputValue to the ref, lines 122-133 call
\* handleSend when sendTrigger has grown.
Effects(ch) ==
    LET copied == [ch EXCEPT !.inputValueRef = ch.inputValue]
        messageToSend == Trim(copied.inputValueRef)
    IN  IF copied.sendTrigger > copied.lastSendTrigger
        THEN LET seen == [copied EXCEPT !.lastSendTrigger = copied.sendTrigger]
             IN  IF messageToSend # <<>> THEN HandleSend(seen, messageToSend)
                 ELSE seen
        ELSE copied

\* Line 90 of FloatingChatbot, mountOnEnter: the panel opening mounts a new
\* Chatbot, with the state of lines 21-32 of Chatbot.jsx.
Mounted(ch) ==
    IF ch.open /\ ~ch.mounted
    THEN [ch EXCEPT !.mounted = TRUE,
                    !.inst = @ + 1,
                    !.lastSendTrigger = 0,
                    !.inputValueRef = <<>>,
                    !.loading = FALSE,
                    !.messages = <<Greeting>>]
    ELSE ch

\* The render that follows the state updates of an event, and its effects.
Commit(ch) ==
    LET m == Mounted(ch)
    IN  IF m.mounted THEN Effects(m) ELSE m

\* The state updates of an event may mount a Chatbot only MaxMounts times.
MayCommit(ch) == (ch.open /\ ~ch.mounted) => ch.inst < MaxMounts

nonChatVars ==
    <<tokenSet, hostExists, hostText, hostVer, pc, csvContent, sha, err, attempts,
      lastList, listResp, listSeen, listThrew, fileExists, fileVer, fileText, kind,
      puts, getResp, silent, stored, error, bodies,
      records, document, decoded, warnings, phase, form, upload>>

\* No call of github.js and no codec run: the chat alone.
InitChat ==
    /\ LedgerOff
    /\ CodecOff

\* An event of the chat: its state updates, then the render.
ChatEvent(updated) ==
    /\ MayCommit(updated)
    /\ chat' = Commit(updated)
    /\ UNCHANGED nonChatVars

\* Lines 48-52 of FloatingChatbot, handleInputFocus.
InputFocus ==
    /\ ~chat.open
    /\ ChatEvent([chat EXCEPT !.open = TRUE])

\* Line 182 of FloatingChatbot: onChange={(e) => setInputValue(e.target.value)}
InputChange(text) ==
    /\ text # chat.inputValue
    /\ ChatEvent([chat EXCEPT !.inputValue = text])

\* Lines 57-67 and 74-84 of FloatingChatbot: what Enter and the send button do.
SendFromInput ==
    /\ Trim(chat.inputValue) # <<>>
    /\ chat.sendTrigger < MaxSends
    /\ ChatEvent([chat EXCEPT !.open = TRUE,
                              !.sendTrigger = @ + 1,
                              !.clearTimers = @ + 1])

\* Lines 54-70 of FloatingChatbot, handleKeyPress with Enter.
KeyPressEnter == SendFromInput

\* Lines 72-86 of FloatingChatbot, handleSendClick.
SendClick == SendFromInput

\* Lines 123-131 of FloatingChatbot, the exit button of the open panel.
\* exitClickSends counts the clicks whose render sent a request for 'exit'.
ExitClick ==
    /\ chat.open /\ chat.mounted
    /\ chat.sendTrigger < MaxSends
    /\ LET updated == [chat EXCEPT !.inputValue = ExitWord,
                                   !.sendTrigger = @ + 1,
                                   !.closeTimers = @ + 1,
                                   !.exitClicks = @ + 1]
           after == Commit(updated)
           sentExit == \E r \in after.requests \ chat.requests : r.exit
       IN  chat' = [after EXCEPT !.exitClickSends =
                                     IF sentExit THEN @ + 1 ELSE @]
    /\ UNCHANGED nonChatVars

\* Lines 127-130 of FloatingChatbot: the timer of the exit button, 500 ms.
CloseTimerFires ==
    /\ chat.closeTimers > 0
    /\ ChatEvent([chat EXCEPT !.closeTimers = @ - 1,
                              !.open = FALSE,
                              !.inputValue = <<>>])

\* Lines 64-66 and 81-83 of FloatingChatbot: the timer of a send, 300 ms.
ClearTimerFires ==
    /\ chat.clearTimers > 0
    /\ ChatEvent([chat EXCEPT !.clearTimers = @ - 1,
                              !.inputValue = <<>>])

\* Line 90 of FloatingChatbot, unmountOnExit: the closed panel unmounts its
\* Chatbot, whose state is lost.
Unmount ==
    /\ ~chat.open /\ chat.mounted
    /\ chat' = [chat EXCEPT !.mounted = FALSE,
                            !.lastSendTrigger = 0,
                            !.inputValueRef = <<>>,
                            !.loading = FALSE,
                            !.messages = <<>>]
    /\ UNCHANGED nonChatVars

\* Lines 76-118 of Chatbot.jsx, after the await of a message: the assistant
\* message of the try block or of the catch block, then finally. The setters
\* of an unmounted Chatbot do nothing; onMessageSent is the parent's.
Answered(ch, r, content) ==
    LET live == ch.mounted /\ r.inst = ch.inst
    IN  [ch EXCEPT !.requests = @ \ {r},
                   !.messages = IF live
                                THEN Append(@, [role |-> "assistant", content |-> content])
                                ELSE @,
                   !.loading = IF live THEN FALSE ELSE @,
                   !.inputValue = <<>>]

\* Lines 78-89 of Chatbot.jsx: sendChatMessage resolved.
ChatReplyOk(r) ==
    /\ r \in chat.requests /\ ~r.exit
    /\ ChatEvent(Answered(chat, r, "reply"))

\* Lines 90-112 of Chatbot.jsx: sendChatMessage rejected.
ChatReplyFails(r) ==
    /\ r \in chat.requests /\ ~r.exit
    /\ ChatEvent(Answered(chat, r, "error"))

\* Lines 56-69 of Chatbot.jsx: the request for 'exit' resolved or rejected,
\* onExit closes the panel.
ExitSettled(r) ==
    /\ r \in chat.requests /\ r.exit
    /\ ChatEvent([chat EXCEPT !.requests = @ \ {r},
                              !.open = FALSE,
                              !.inputValue = <<>>])

NextChat ==
    \/ InputFocus
    \/ \E text \in TypedTexts : InputChange(text)
    \/ KeyPressEnter
    \/ SendClick
    \/ ExitClick
    \/ CloseTimerFires
    \/ ClearTimerFires
    \/ Unmount
    \/ \E r \in chat.requests : ChatReplyOk(r)
    \/ \E r \in chat.requests : ChatReplyFails(r)
    \/ \E r \in chat.requests : ExitSettled(r)

SpecChat == InitChat /\ [][NextChat]_vars

\* ------------------------------------------------------------------ properties

IsPrefix(s, u) == Len(s) <= Len(u) /\ SubSeq(u, 1, Len(s)) = s

\* The lines of a text whose lines all end with a newline.
LinesOf(text) == IF text = <<>> THEN <<>> ELSE Split(Front(text), NL)

\* The header line, without its newline.
HeaderLine == Front(CsvHeader)

\* The lines of a text other than the header line.
DataLines(text) == SelectSeq(LinesOf(text), LAMBDA l : l # HeaderLine)

\* How many lines of the text are the row of call c.
CountRow(text, c) ==
    Cardinality({k \in 1..Len(LinesOf(text)) :
                    LinesOf(text)[k] = Front(NewRow(AlertData(c)))})

\* The alert has the seven fields of the record, under the keys the header gives.
SameRecord(alert, r) ==
    /\ HasKey(alert, KeyLocation) /\ GetKey(alert, KeyLocation) = r.location
    /\ HasKey(alert, KeySeverity) /\ GetKey(alert, KeySeverity) = r.severity
    /\ HasKey(alert, KeyDescription) /\ GetKey(alert, KeyDescription) = r.description
    /\ HasKey(alert, KeyContactinfo)
    /\ GetKey(alert, KeyContactinfo) = (IF Truthy(r.contactInfo) THEN r.contactInfo ELSE <<>>)
    /\ HasKey(alert, KeyTimestamp) /\ GetKey(alert, KeyTimestamp) = r.timestamp
    /\ HasKey(alert, KeyStatus)
    /\ GetKey(alert, KeyStatus) = (IF Truthy(r.status) THEN r.status ELSE TextPending)
    /\ HasKey(alert, KeyVerified) /\ GetKey(alert, KeyVerified) = r.verified

Ended(c) == pc[c] \in {"returned", "thrown"}

\* C1: when two calls read the document at the same version token and the
\* write of one of them was rejected with a conflict, then once both calls
\* have ended the document holds the record of each, exactly once.
C1_BothRecordsAfterConflict ==
    \A c1 \in Calls : \A c2 \in Calls \ {c1} :
        ( /\ Ended(c1) /\ Ended(c2)
          /\ sha[c1] = sha[c2] /\ sha[c1] # NoSha
          /\ err[c1] = "none"
          /\ err[c2] = "conflict" )
        => CountRow(hostText, c1) = 1 /\ CountRow(hostText, c2) = 1

\* C3: every write the host accepts keeps the stored text as a prefix and
\* adds exactly one data line to it.
C3_AcceptedWriteAppendsOneRow ==
    [][ hostVer' # hostVer =>
            /\ IsPrefix(hostText, hostText')
            /\ Len(DataLines(hostText')) = Len(DataLines(hostText)) + 1
            /\ IsPrefix(DataLines(hostText), DataLines(hostText')) ]_vars

\* C3 witness: a write was accepted over a document that existed already.
C3_Witness == \E c \in Calls : pc[c] = "returned" /\ sha[c] # NoSha

\* C4: a fetchAlertsFromCSV call that got the stored text returns the record
\* of every append call that had returned before it.
C4_ReturnedRecordListed ==
    listResp = "ok" =>
        \A c \in listSeen :
            \E k \in 1..Len(lastList) : SameRecord(lastList[k], AlertData(c))

\* C5: a call reports a conflict only after it has fetched and written again.
C5_ConflictReportedAfterRetry ==
    \A c \in Calls : (pc[c] = "thrown" /\ err[c] = "conflict") => attempts[c] >= 2

\* C6: the document holds no row of a call that threw for a missing
\* credential, a rejected write or a conflict.
C6_ThrownCallLeftNoRow ==
    \A c \in Calls :
        (pc[c] = "thrown" /\ err[c] \in {"notconfigured", "hosterror", "conflict"})
            => CountRow(hostText, c) = 0

\* C6 witness: a call threw on a conflict after another call's write was accepted.
C6_Witness ==
    \E c \in Calls : \E c2 \in Calls \ {c} :
        /\ pc[c] = "thrown" /\ err[c] = "conflict"
        /\ pc[c2] = "returned" /\ CountRow(hostText, c2) = 1

\* C7: every document a call has written starts with the header line, and the
\* document a call created is the header line followed by one data line.
C7_WrittenDocumentHasHeader ==
    \A c \in Calls :
        pc[c] = "returned" =>
            /\ IsPrefix(CsvHeader, csvContent[c])
            /\ sha[c] = NoSha =>
                   /\ Len(LinesOf(csvContent[c])) = 2
                   /\ Len(DataLines(csvContent[c])) = 1

\* C8: when call 1 (the scenario's record) created the document, its second
\* line decodes to the record, and a listing made before any other append
\* returns exactly that record.
C8_ScenarioDecodes ==
    /\ (pc[1] = "returned" /\ sha[1] = NoSha) =>
           LET lines == Split(Trim(csvContent[1]), NL)
           IN  /\ Len(lines) >= 2
               /\ SameRecord(MakeAlert(ParseHeaders(lines[1]), ParseLine(lines[2]), 1),
                             AlertData(1))
    /\ (listResp = "ok" /\ listSeen = {1} /\ sha[1] = NoSha) =>
           /\ Len(lastList) = 1
           /\ SameRecord(lastList[1], AlertData(1))
\* Every quote of the text doubled.
RECURSIVE QuotesDoubled(_)
QuotesDoubled(s) ==
    IF s = <<>> THEN <<>>
    ELSE (IF Head(s) = Q THEN <<Q, Q>> ELSE <<Head(s)>>) \o QuotesDoubled(Tail(s))

\* The row the encoding rules give: each of the seven values in quotes, its
\* quotes doubled.
QuotedRow(r) ==
    Join(<< InQuotes(QuotesDoubled(r.location)),
            InQuotes(QuotesDoubled(r.severity)),
            InQuotes(QuotesDoubled(r.description)),
            InQuotes(QuotesDoubled(IF r.contactInfo = UNDEF THEN <<>> ELSE r.contactInfo)),
            InQuotes(QuotesDoubled(r.timestamp)),
            InQuotes(QuotesDoubled(IF r.status = UNDEF THEN TextPending ELSE r.status)),
            InQuotes(IF r.verified THEN TextTrue ELSE TextFalse) >>, COMMA) \o <<NL>>

HasChar(s, ch) == \E k \in 1..Len(s) : s[k] = ch

\* C2: parsing the header followed by the rows of any records gives the
\* same records, in the same order, equal on each of the seven fields.
C2_RoundTrip ==
    phase = "parsed" =>
        /\ Len(decoded) = Len(records)
        /\ \A k \in 1..Len(records) : SameRecord(decoded[k], records[k])

\* C9: a description holding quotes and commas is written in quotes with its
\* quotes doubled, and is parsed back to the same description.
C9_QuotedDescriptionRoundTrip ==
    \A k \in 1..Len(records) :
        ( /\ records[k] = [PlainRecord EXCEPT !.description = records[k].description]
          /\ HasChar(records[k].description, Q)
          /\ HasChar(records[k].description, COMMA) )
        => /\ RowFields(records[k])[3] = InQuotes(QuotesDoubled(records[k].description))
           /\ phase = "parsed" =>
                  /\ Len(decoded) = Len(records)
                  /\ HasKey(decoded[k], KeyDescription)
                  /\ GetKey(decoded[k], KeyDescription) = records[k].description

IsBlank(text) == \A k \in 1..Len(text) : text[k] \in {SP, NL}

\* C11: parsing the empty text, a text of whitespace only, or a text that
\* holds the header line and no data line, gives the empty list.
C11_NoDataLineDecodesEmpty ==
    (phase = "parsed" /\ records = <<>>) => decoded = <<>>

\* A text of whitespace only, with a newline in it, has been parsed.
C11_Witness ==
    /\ phase = "parsed"
    /\ records = <<>>
    /\ document # <<>>
    /\ IsBlank(document)
    /\ \E k \in 1..Len(document) : document[k] = NL

\* ------------------------------------------------------------------ C12

\* C12: when Alerts.csv does not exist (the response is a 404),
\* fetchAlertsFromCSV returns the empty list and does not throw.
C12_MissingDocumentListsEmpty ==
    listResp = "notfound" => (lastList = <<>> /\ ~listThrew)

\* fetchAlertsFromCSV was answered 404 for the missing document.
C12_Witness == listResp = "notfound" /\ ~hostExists

\* ------------------------------------------------------------------ C13

\* The data lines of the text, as the parser cuts them.
ParsedLines(text) ==
    LET lines == Split(Trim(text), NL) IN SubSeq(lines, 2, Len(lines))

\* The data lines of the text with as many fields as the header.
WellFormedLines(text) ==
    LET header == Split(Trim(text), NL)[1]
    IN  {k \in 1..Len(ParsedLines(text)) :
            Len(ParseLine(ParsedLines(text)[k])) = Len(ParseHeaders(header))}

\* C13: a parse gives one alert per data line that has the header's number of
\* fields, none for the other lines, and one skipped-line warning for each of
\* the other lines.
C13_SkippedLinesReported ==
    (phase = "parsed" /\ records # <<>>) =>
        /\ Len(decoded) = Cardinality(WellFormedLines(document))
        /\ Len(warnings) =
               Len(ParsedLines(document)) - Cardinality(WellFormedLines(document))

\* The part of C13 the parser keeps: one alert per well-formed line, and the
\* parse goes on after a malformed one.
C13_OneAlertPerWellFormedLine ==
    (phase = "parsed" /\ records # <<>>) =>
        Len(decoded) = Cardinality(WellFormedLines(document))

\* ------------------------------------------------------------------ C14

\* C14: without a token, appendAlertToCSV and saveFileToGitHub throw the
\* not-configured error before any request: no GET and no PUT is sent, and
\* the stored documents stay as they were.
C14_NoTokenNoRequest ==
    ~tokenSet =>
        /\ \A c \in Calls :
               /\ attempts[c] = 0
               /\ puts[c] = 0
               /\ pc[c] \in {"idle", "thrown"}
               /\ pc[c] = "thrown" => err[c] = "notconfigured"
        /\ hostVer = (IF hostExists THEN 1 ELSE 0)
        /\ hostText = (IF hostExists THEN CsvHeader ELSE <<>>)
        /\ fileVer = (IF fileExists THEN 1 ELSE 0)
        /\ fileText = <<>>

\* Without a token, a call of each function has thrown.
C14_Witness ==
    /\ ~tokenSet
    /\ \E c \in Calls : kind[c] = "append" /\ pc[c] = "thrown"
    /\ \E c \in Calls : kind[c] = "save" /\ pc[c] = "thrown"

\* ------------------------------------------------------------------ C15

\* The path of the call exists.
PathExists(c) == IF kind[c] = "append" THEN hostExists ELSE fileExists

PathVer(c) == IF kind[c] = "append" THEN hostVer ELSE fileVer

\* C16: the sha a call presents in its PUT is the one its own GET returned
\* just before, or none when the GET returned no document; a call starts
\* without a sha and no other step changes the one it holds.
C16_ShaComesFromOwnFetch ==
    /\ [](\A c \in Calls : pc[c] \in {"idle", "get"} => sha[c] = NoSha)
    /\ [][\A c \in Calls :
             /\ (pc[c] = "get" /\ pc'[c] = "put") =>
                    sha'[c] = (IF getResp'[c] = "ok" THEN PathVer(c) ELSE NoSha)
             /\ pc[c] # "get" => sha'[c] = sha[c]]_vars

\* A call of each function has sent its PUT with the sha of an OK response.
C16_Witness ==
    /\ \E c \in Calls :
           kind[c] = "append" /\ pc[c] = "put" /\ getResp[c] = "ok" /\ sha[c] = hostVer
    /\ \E c \in Calls :
           kind[c] = "save" /\ pc[c] = "put" /\ getResp[c] = "ok" /\ sha[c] = fileVer

\* ------------------------------------------------------------------ C17

\* C17: a GET that fails otherwise than with not-found (the network fails, or
\* the host answers with an error) ends the call at once: the error is
\* thrown and no PUT is sent after it; nor is a failed PUT followed by
\* another request.
C17_FetchFailurePropagates ==
    \A c \in Calls :
        /\ getResp[c] \in {"network", "hosterror"} => (puts[c] = 0 /\ pc[c] = "thrown")
        /\ (pc[c] = "thrown" /\ err[c] \in {"network", "hosterror"}) =>
               (attempts[c] = 1 /\ puts[c] = 1)

\* The part of C17 the calls keep: a PUT that fails is not followed by
\* another request of the call.
C17_WriteFailureNotRetried ==
    \A c \in Calls :
        (pc[c] = "thrown" /\ err[c] \in {"network", "hosterror"}) =>
            (attempts[c] = 1 /\ puts[c] = 1)

\* ------------------------------------------------------------------ C18

\* C18: when the request of fetchAlertsFromCSV fails otherwise than with
\* not-found, the call throws rather than return the empty list.
C18_ListFailurePropagates ==
    listResp \in {"network", "hosterror"} => listThrew

\* ------------------------------------------------------------------ C19

\* A step of the call after its request went out.
CallStep(c) ==
    \/ GetOk(c)
    \/ GetNotOk(c)
    \/ GetThrows(c)
    \/ PutOk(c)
    \/ PutConflict(c)
    \/ PutHostError(c)
    \/ PutThrows(c)
    \/ PutLost(c)

\* C19: every request is bounded by a timeout: a call whose request the host
\* never answers can still go on, to end with a transport error.
C19_SilentHostTimesOut ==
    \A c \in Calls : silent[c] => (Ended(c) \/ ENABLED CallStep(c))

\* ------------------------------------------------------------------ C20

\* What a call starts its text from, for each way its GET can end.
FetchedText(resp) ==
    IF resp = "ok" THEN hostText
    ELSE IF resp = "network" THEN CsvHeader
    ELSE <<>>

\* C20: concurrent calls share no variable: the text a call sends is the
\* text its own GET gave it followed by its own row, the sha it sends is the
\* one of that GET, neither is changed by any step between its GET and its
\* PUT, and an accepted PUT stores exactly that text.
C20_CallsShareNoState ==
    [][\A c \in Calls :
          /\ (pc[c] = "get" /\ pc'[c] = "put") =>
                 /\ csvContent'[c] = FetchedText(getResp'[c]) \o NewRow(AlertData(c))
                 /\ sha'[c] = (IF getResp'[c] = "ok" THEN hostVer ELSE NoSha)
          /\ pc[c] = "put" => (csvContent'[c] = csvContent[c] /\ sha'[c] = sha[c])
          /\ (pc[c] = "put" /\ pc'[c] = "returned") => hostText' = csvContent[c]]_vars

\* Two calls fetched the same version and hold their texts at once, each
\* with its own row, and one of them has been stored.
C20_Witness ==
    \E c1, c2 \in Calls :
        /\ c1 # c2
        /\ pc[c1] = "returned"
        /\ pc[c2] = "put"
        /\ getResp[c2] = "ok"
        /\ sha[c1] = sha[c2]
        /\ csvContent[c1] # csvContent[c2]
        /\ CountRow(csvContent[c1], c1) = 1
        /\ CountRow(csvContent[c2], c2) = 1

\* ------------------------------------------------------------------ C21

\* C21: the error a call throws for a PUT rejected on a stale sha can be told
\* apart from the error thrown for a network failure or another error
\* response of the host.
C21_ConflictToldApart ==
    \A c1, c2 \in Calls :
        (/\ pc[c1] = "thrown" /\ err[c1] = "conflict"
         /\ pc[c2] = "thrown" /\ err[c2] \in {"hosterror", "network"}
         /\ kind[c1] = kind[c2])
            => error[c1] # error[c2]

\* The part of C21 the calls keep: the error thrown for an error response
\* carries the message of the response, or the fallback text, and the one
\* thrown for a network failure is the TypeError of fetch.
C21_MessageCarried ==
    \A c \in Calls :
        /\ (pc[c] = "thrown" /\ err[c] \in {"conflict", "hosterror"}) =>
               \/ error[c].message \in bodies \ {UNDEF, NotJson}
               \/ UNDEF \in bodies /\ error[c].message \in {FailedAlert, FailedFile}
               \/ NotJson \in bodies /\ error[c].name = "SyntaxError"
        /\ (pc[c] = "thrown" /\ err[c] = "network") => error[c] = FetchRejected

\* ------------------------------------------------------------------ C26

\* C26: the row appendAlertToCSV builds for a record without a newline is
\* split by the parser into as many fields as the header has columns.
C26_RowHasHeaderFieldCount ==
    \A k \in 1..Len(records) :
        Len(ParseLine(Front(NewRow(records[k])))) = Len(ParseHeaders(HeaderLine))

\* ------------------------------------------------------------------ C27

\* Alerts.csv existed before the first call: every version after the first
\* is the stored write of a call.
StartedWithDocument ==
    hostVer = 1 + Cardinality({c \in Calls : kind[c] = "append" /\ stored[c]})

\* C27: from a document that held the header only, the data lines are as
\* many as the calls that returned: no call has two rows in the document,
\* and a call that threw has none.
C27_DataLinesAreReturnedCalls ==
    StartedWithDocument =>
        /\ Len(DataLines(hostText)) = Cardinality(Returned)
        /\ \A c \in Calls :
               /\ CountRow(hostText, c) <= 1
               /\ pc[c] = "thrown" => CountRow(hostText, c) = 0

\* The part of C27 the calls keep: the data lines are the rows of the calls
\* whose PUT the host stored, one each.
C27_DataLinesAreStoredWrites ==
    StartedWithDocument =>
        /\ Len(DataLines(hostText)) = Cardinality({c \in Calls : stored[c]})
        /\ \A c \in Calls : CountRow(hostText, c) = (IF stored[c] THEN 1 ELSE 0)

\* ------------------------------------------------------------------ C22

\* C22: the form takes an append failure for a missing token exactly when
\* the call threw because the token is missing; every other failure it takes
\* for a failure to save, whatever the text of the error.
C22_FailureClassifiedByCause ==
    \A c \in Calls :
        (form[c].pc = "done" /\ pc[c] = "thrown") =>
            (form[c].branch = "token" <=> err[c] = "notconfigured")

\* ------------------------------------------------------------------ C23

\* C23: submitSuccess is true only when the appendAlertToCSV call of the
\* submit has returned.
C23_SuccessOnlyAfterAppend ==
    \A c \in Calls : form[c].submitSuccess => pc[c] = "returned"

\* ------------------------------------------------------------------ C28

\* C28: when appendAlertToCSV returned, handleSubmit ends with submitSuccess
\* true and the form fields back at their defaults.
C28_ReturnedAppendShowsSuccess ==
    \A c \in Calls :
        (form[c].pc = "done" /\ pc[c] = "returned") =>
            (form[c].submitSuccess /\ form[c].alertForm = "defaults")

\* ------------------------------------------------------------------ C29

\* C29: a submit that passes validation sets submitting, keeps it set while
\* it waits for the backend and for the append, can always go on when the
\* request it waits for completes, and ends with submitting false, whether
\* the append returned or threw.
C29_SubmittingSetAndCleared ==
    \A c \in Calls :
        /\ form[c].submitting <=> form[c].pc \in {"backend", "append"}
        /\ form[c].pc \in {"backend", "append"} => ENABLED SubmitStep(c)

\* Two submits have ended, one after an append that returned and one after
\* an append that threw, and submitting is false in both forms.
C29_Witness ==
    \E c1, c2 \in Calls :
        /\ form[c1].pc = "done" /\ pc[c1] = "returned" /\ ~form[c1].submitting
        /\ form[c2].pc = "done" /\ pc[c2] = "thrown" /\ ~form[c2].submitting
        /\ form[c2].backend = "failed"

\* ------------------------------------------------------------------ C25

\* C25: when handleUpload ends, the file it ran with is at the front of
\* previousUploads, before the uploads that were there, whether uploadImage
\* and the save to GitHub succeeded or not.
C25_UploadAlwaysListed ==
    [][(upload.pc # "idle" /\ upload'.pc = "idle") =>
           upload'.previousUploads = <<upload.run>> \o upload.previousUploads]_vars

\* Without a token and with the backend down, the second upload has ended
\* and is listed before the first.
C25_Witness ==
    /\ ~tokenSet
    /\ upload.pc = "idle"
    /\ upload.backend = "failed"
    /\ upload.previousUploads = <<2, 1>>
    /\ err[2] = "notconfigured"

\* ------------------------------------------------------------------ C24

\* C24: every click on the exit button of the open panel sends a request for
\* 'exit', and the panel closes only when every such click has had its
\* request sent.
C24_ExitClickSendsExit ==
    [][/\ chat'.exitClicks > chat.exitClicks =>
              chat'.exitClickSends > chat.exitClickSends
       /\ (chat.open /\ ~chat'.open) => chat.exitClickSends = chat.exitClicks]_vars

\* ------------------------------------------------------------------ C30

\* The requests for a message that the mounted Chatbot has in flight.
OwnRequests == {r \in chat.requests : ~r.exit /\ r.inst = chat.inst}

====
